---------------------------- MODULE Spec2Model ----------------------------
(***************************************************************************)
(* Market Pulse Bitcoin: the Glue analysis job (analysis/analysis.py,      *)
(* run_analysis) and the dashboard's table loader (app/dashboard.py,       *)
(* load_table).                                                            *)
(*                                                                         *)
(* The job reads btc_ohlc_raw twice, once per stage, and replaces the      *)
(* tables volatility_by_day and detected_anomalies.  The dashboard reads   *)
(* the tables through a cached loader that falls back to sample files.     *)
(***************************************************************************)
EXTENDS Integers, Sequences, FiniteSets, TLC

VARIABLES
    db,          \* the PostgreSQL tables: name -> Null (no such table) or Some(frame)
    pc,          \* where run_analysis stands
    raised,      \* the exception that ended the current run, or Null
    produced,    \* the result tables the current run has written
    volatility_df,  \* the frame the volatility stage of the current run read (line 35)
    anomaly_df,     \* the frame the anomaly stage of the current run read (line 48)
    written,     \* per result table, the frame the latest to_sql that succeeded was given
    fitted,      \* the frame the forest behind the present detected_anomalies was fitted from
    online,      \* whether the database answers the dashboard's queries
    files,       \* the sample files beside the app: path -> [exists, readable]
    load_table_cache,   \* st.cache_data of load_table: table_name -> Null or Some(entry)
    read_excel_cache,   \* st.cache_data of _read_excel_if_exists: path -> Null or Some(entry)
    ret          \* the latest load_table call and the frame it returned, or Null

jobVars == <<db, pc, raised, produced, volatility_df, anomaly_df, written, fitted>>

dashVars == <<online, files, load_table_cache, read_excel_cache, ret>>

vars == <<jobVars, dashVars>>

----------------------------------------------------------------------------
(* Values *)

\* A nullable value (SQL NULL, NaN, None): Null, or Some(x).
Null == <<>>
Some(x) == <<x>>

\* the longest price series explored
MaxLen == 3

\* the longest price-and-volume series explored
MaxTrades == 4

SecondsPerDay == 86400

\* Epoch seconds: two instants of Thursday 1970-01-01 and one of the Thursday
\* a week later, so that series have gap days, more than seven daily buckets
\* and two buckets on one weekday.
Stamps == {0, 3600, 7 * SecondsPerDay}
Closes == {1, 2}

\* The rows of btc_ohlc_raw the price series are drawn from: every timestamp
\* with every close (the volatility stage reads no volume).
PriceRecords == [timestamp : Stamps, close : Closes, volume_btc : {Some(1)}]

\* The rows the price-and-volume series are drawn from: four hourly trades in
\* which the price moves, then the volume, then neither, and a row whose
\* volume is missing.
TradeRecords ==
    { [timestamp |-> 0,     close |-> 1, volume_btc |-> Some(1)],
      [timestamp |-> 3600,  close |-> 2, volume_btc |-> Some(1)],
      [timestamp |-> 7200,  close |-> 2, volume_btc |-> Some(2)],
      [timestamp |-> 10800, close |-> 2, volume_btc |-> Some(2)],
      [timestamp |-> 3600,  close |-> 1, volume_btc |-> Null] }

Abs(x) == IF x < 0 THEN -x ELSE x

RECURSIVE Gcd(_, _)
Gcd(a, b) == IF b = 0 THEN a ELSE Gcd(b, a % b)

\* the rational n/d (d > 0) in lowest terms
Frac(n, d) ==
    LET g == Gcd(Abs(n), d)
    IN  <<n \div g, d \div g>>

RECURSIVE SumSeq(_)
SumSeq(s) == IF s = <<>> THEN 0 ELSE Head(s) + SumSeq(Tail(s))

RECURSIVE ProdSeq(_)
ProdSeq(s) == IF s = <<>> THEN 1 ELSE Head(s) * ProdSeq(Tail(s))

----------------------------------------------------------------------------
(* The volatility stage, lines 33-43 *)

\* volatility_df['close'].pct_change().dropna(): the return of every row but
\* the first, as an exact rational, indexed by the row's timestamp.
returns(df) ==
    LET pct(i) == IF i = 1 THEN Null
                  ELSE Some(Frac(df[i].close - df[i-1].close, df[i-1].close))
        rows == [i \in 1..Len(df) |-> [timestamp |-> df[i].timestamp, ret |-> pct(i)]]
        kept == SelectSeq(rows, LAMBDA r : r.ret # Null)
    IN  [i \in 1..Len(kept) |-> [timestamp |-> kept[i].timestamp, ret |-> kept[i].ret[1]]]

\* Series.std() of one bucket (ddof = 1): NaN below two values, else the
\* standard deviation, kept as its square, the sample variance, an exact rational.
std(rets) ==
    LET k == Len(rets)
        L == ProdSeq([i \in 1..k |-> rets[i][2]])
        scaled == [i \in 1..k |-> rets[i][1] * (L \div rets[i][2])]
        s1 == SumSeq(scaled)
        s2 == SumSeq([i \in 1..k |-> scaled[i] * scaled[i]])
    IN  IF k < 2 THEN Null
        ELSE Some(Frac(k * s2 - s1 * s1, k * (k - 1) * L * L))

DayOf(ts) == ts \div SecondsPerDay

\* returns.resample('D').std(): one bucket per calendar day from the first
\* day holding a return to the last, the empty days between them included.
daily_volatility(rets) ==
    LET days == {DayOf(rets[i].timestamp) : i \in 1..Len(rets)}
        lo == CHOOSE d \in days : \A e \in days : d <= e
        hi == CHOOSE d \in days : \A e \in days : e <= d
        inDay(d) == SelectSeq(rets, LAMBDA r : DayOf(r.timestamp) = d)
        bucket(d) == [i \in 1..Len(inDay(d)) |-> inDay(d)[i].ret]
    IN  IF rets = <<>> THEN <<>>
        ELSE [k \in 1..(hi - lo + 1) |-> [day |-> lo + k - 1, std |-> std(bucket(lo + k - 1))]]

DayNames == <<"Monday", "Tuesday", "Wednesday", "Thursday", "Friday", "Saturday", "Sunday">>

\* DatetimeIndex.day_name(): day 0 of the epoch is a Thursday.
day_name(day) == DayNames[((day + 3) % 7) + 1]

\* groupby sorts its keys
SortedDayNames == <<"Friday", "Monday", "Saturday", "Sunday", "Thursday", "Tuesday", "Wednesday">>

\* The mean of a group, NaN skipped: the defined standard deviations of the
\* group's buckets.  The float is the mean of their square roots, which
\* integers cannot hold, so the value is kept as the tuple of variances; it is
\* NaN when the tuple is empty and 0.0 when every variance is 0.
mean(group) ==
    LET defined == SelectSeq(group, LAMBDA b : b.std # Null)
    IN  [i \in 1..Len(defined) |-> defined[i].std[1]]

IsNaN(v) == v = <<>>
IsZero(v) == v # <<>> /\ \A i \in 1..Len(v) : v[i][1] = 0

\* daily_volatility.groupby(day_name).mean().reset_index(), columns renamed:
\* one row per weekday that is the key of a bucket.
volatility_by_day(daily) ==
    LET group(n) == SelectSeq(daily, LAMBDA b : day_name(b.day) = n)
        keys == SelectSeq(SortedDayNames, LAMBDA n : group(n) # <<>>)
    IN  [j \in 1..Len(keys) |-> [day_of_week |-> keys[j], avg_volatility |-> mean(group(keys[j]))]]

\* lines 38-41 together
VolatilityAnalysis(df) == volatility_by_day(daily_volatility(returns(df)))

----------------------------------------------------------------------------
(* The anomaly stage, lines 46-58 *)

\* |x.diff()| of a nullable column at row i: undefined at the first row and
\* wherever either operand is missing.
AbsDiff(cur, prev) ==
    IF cur = Null \/ prev = Null THEN Null ELSE Some(Abs(cur[1] - prev[1]))

\* features with fillna(0) in place of dropna: every row is kept
features_fillna(df) ==
    LET filled(d) == IF d = Null THEN 0 ELSE d[1]
    IN  [i \in 1..Len(df) |->
            [timestamp |-> df[i].timestamp,
             price_change |-> IF i = 1 THEN 0
                              ELSE filled(AbsDiff(Some(df[i].close), Some(df[i-1].close))),
             volume_change |-> IF i = 1 THEN 0
                               ELSE filled(AbsDiff(df[i].volume_btc, df[i-1].volume_btc))]]

\* lines 49-51: the two delta columns, then dropna over all columns.
features(df) ==
    LET row(i) ==
            [timestamp |-> df[i].timestamp,
             close |-> Some(df[i].close),
             volume_btc |-> df[i].volume_btc,
             price_change |-> IF i = 1 THEN Null
                              ELSE AbsDiff(Some(df[i].close), Some(df[i-1].close)),
             volume_change |-> IF i = 1 THEN Null
                               ELSE AbsDiff(df[i].volume_btc, df[i-1].volume_btc)]
        rows == [i \in 1..Len(df) |-> row(i)]
        kept == SelectSeq(rows, LAMBDA r : /\ r.volume_btc # Null
                                           /\ r.price_change # Null
                                           /\ r.volume_change # Null)
    IN  [i \in 1..Len(kept) |->
            [timestamp |-> kept[i].timestamp,
             price_change |-> kept[i].price_change[1],
             volume_change |-> kept[i].volume_change[1]]]

\* contamination=0.001, in thousandths
ContaminationPerMille == 1

\* The columns the forest is fitted on (line 52).
FeatureColumns == {"price_change", "volume_change"}

\* Each tree is grown on max_samples = min(256, n) rows, to the depth
\* ceil(log2(max(max_samples, 2))).  The series here are shorter than 256
\* rows, so every tree is grown on every row.
RECURSIVE CeilLog2(_)
CeilLog2(n) == IF n <= 1 THEN 0 ELSE 1 + CeilLog2((n + 1) \div 2)

max_depth(n) ==
    LET max_samples == IF n < 256 THEN n ELSE 256
    IN  CeilLog2(IF max_samples < 2 THEN 2 ELSE max_samples)

\* The average path length of an unsuccessful search in a binary tree of k
\* rows, added to the depth of a leaf that holds k rows; in thousandths:
\* 0 for k <= 1, 1 for k = 2, 2 * (ln(k - 1) + 0.5772) - 2 * (k - 1) / k.
average_path_length(k) ==
    IF k <= 1 THEN 0
    ELSE IF k = 2 THEN 1000
    ELSE <<1207, 1852, 2327, 2707>>[k - 2]

\* The depths (in thousandths) one isolation tree can give the rows P of X
\* below a node at depth d.  A node is a leaf at the depth limit, with fewer
\* than two rows, or when no column varies over its rows; otherwise a
\* column that varies is drawn and cut at a threshold drawn between its
\* least and greatest value, the rows at or below it going left.
RECURSIVE Grow(_, _, _, _)
Grow(X, P, d, limit) ==
    LET values(f) == {X[i][f] : i \in P}
        varying == {f \in FeatureColumns : Cardinality(values(f)) > 1}
        cuts(f) == {v \in values(f) : \E w \in values(f) : w > v}
        left(f, v) == {i \in P : X[i][f] <= v}
    IN  IF d = limit \/ Cardinality(P) < 2 \/ varying = {}
        THEN {[i \in P |-> d * 1000 + average_path_length(Cardinality(P))]}
        ELSE UNION {UNION {
                 {[i \in P |-> IF i \in left(f, v) THEN l[i] ELSE r[i]] :
                      l \in Grow(X, left(f, v), d + 1, limit),
                      r \in Grow(X, P \ left(f, v), d + 1, limit)} :
                 v \in cuts(f)} : f \in varying}

\* The K-th smallest of the depths, repeats counted.
Kth(depth, K) ==
    CHOOSE v \in {depth[i] : i \in DOMAIN depth} :
        /\ Cardinality({j \in DOMAIN depth : depth[j] < v}) < K
        /\ K <= Cardinality({j \in DOMAIN depth : depth[j] <= v})

\* The labels for given summed depths.  A row's score rises with its depth.
\* The threshold is the contamination-th percentile of the rows' own scores,
\* interpolated between the scores at ranks m and m + 1 around
\* contamination * (n - 1); a row is labelled -1 when its score is strictly
\* below the threshold, that is when it is strictly shallower than the
\* upper of the two ranks (than rank m itself when the rank is whole).
predict(depth) ==
    LET n == Len(depth)
        rank == (n - 1) * ContaminationPerMille
        K == IF rank % 1000 = 0 THEN rank \div 1000 + 1 ELSE rank \div 1000 + 2
    IN  [i \in 1..n |-> IF K <= n /\ depth[i] < Kth(depth, K) THEN -1 ELSE 1]

\* IsolationForest(n_estimators=100, contamination=0.001).fit_predict(X) on
\* n >= 1 rows.  No random_state is given, so each tree is any tree Grow can
\* grow.  The forests kept here are those whose two halves are each copies
\* of one tree; over the series explored they give every labelling that the
\* hundred trees can give.  (No rows: fit raises ValueError.)
fit_predict(X) ==
    LET n == Len(X)
        trees == Grow(X, 1..n, 0, max_depth(n))
    IN  {predict([i \in 1..n |-> a[i] + b[i]]) : a, b \in trees}

\* a fit that accepts a frame of no rows
FitRaises_never(X) == FALSE

\* fit's input validation (check_array) wants at least one row: ValueError
FitRaises(X) == Len(X) = 0

\* lines 55-56: the timestamps of the rows labelled -1
anomalies_to_save(X, lab) ==
    LET idx == SelectSeq([i \in 1..Len(X) |-> i], LAMBDA i : lab[i] = -1)
    IN  [k \in 1..Len(idx) |-> [timestamp |-> X[idx[k]].timestamp]]

----------------------------------------------------------------------------
(* The database *)

ResultTables == {"volatility_by_day", "detected_anomalies"}
Tables == {"btc_ohlc_raw"} \cup ResultTables

\* pd.read_sql("SELECT ... FROM <name>")
read_sql(d, name) == d[name][1]

\* to_sql with if_exists='append': the frame is added to the rows there
to_sql_append(d, name, frame) ==
    [d EXCEPT ![name] = Some((IF d[name] = Null THEN <<>> ELSE d[name][1]) \o frame)]

\* DataFrame.to_sql(name, engine, if_exists='replace', index=False): the table
\* is dropped and created anew from the frame, in one transaction.
to_sql(d, name, frame) == [d EXCEPT ![name] = Some(frame)]

raw == read_sql(db, "btc_ohlc_raw")

----------------------------------------------------------------------------
(* The dashboard's loaders, app/dashboard.py *)

SAMPLE_VOLATILITY_PATH == "sample_volatility.xlsx"
SAMPLE_ANOMALIES_PATH == "sample_anomalies.xlsx"
SamplePaths == {SAMPLE_VOLATILITY_PATH, SAMPLE_ANOMALIES_PATH}

\* what the workbooks hold when they can be read
SampleFrame(path) ==
    IF path = SAMPLE_VOLATILITY_PATH
    THEN <<[day_of_week |-> "Monday", avg_volatility |-> <<<<1, 100>>>>]>>
    ELSE <<[timestamp |-> 1700000000]>>

\* pd.DataFrame()
EmptyFrame == <<>>

FileStates == {[exists |-> FALSE, readable |-> FALSE],
               [exists |-> TRUE, readable |-> FALSE],
               [exists |-> TRUE, readable |-> TRUE]}

\* the names load_table is called with: the three tables and one it does not know
TableNames == Tables \cup {"btc_trades"}

\* the _engine argument: None, or the engine built from the secrets
Engines == {Null, Some("postgresql+pg8000")}

\* ttl=600, seconds
TTL == 600

\* A cache entry is the value a call returned and the seconds since then.
Entry(value) == Some([value |-> value, age |-> 0])

\* st.cache_data looks an entry up by the hashed arguments; one older than
\* the ttl is gone.
Lookup(cache, key) == cache[key]

\* the caches after d more seconds
Aged(cache, d) ==
    [k \in DOMAIN cache |->
        IF cache[k] = Null \/ cache[k][1].age + d >= TTL THEN Null
        ELSE Some([cache[k][1] EXCEPT !.age = @ + d])]

\* lines 39-45, the body of _read_excel_if_exists
ReadExcelBody(path) ==
    IF files[path].exists
    THEN IF files[path].readable THEN SampleFrame(path) ELSE EmptyFrame
    ELSE EmptyFrame

\* lines 36-37: _read_excel_if_exists behind its cache, keyed by the path
\* (the value returned, and the cache afterwards)
_read_excel_if_exists(path) ==
    IF Lookup(read_excel_cache, path) # Null
    THEN [value |-> Lookup(read_excel_cache, path)[1].value, cache |-> read_excel_cache]
    ELSE [value |-> ReadExcelBody(path),
          cache |-> [read_excel_cache EXCEPT ![path] = Entry(ReadExcelBody(path))]]

\* pd.read_sql('SELECT * FROM "<table_name>"', engine) raises when the
\* database does not answer or holds no such table
QueryRaises(table_name) ==
    \/ ~online
    \/ table_name \notin DOMAIN db
    \/ db[table_name] = Null

\* a database path that answers a failed query with an empty frame
DbPath_no_fallback(table_name, engine) ==
    IF engine = Null THEN Null
    ELSE IF QueryRaises(table_name) THEN Some(EmptyFrame)
    ELSE Some(read_sql(db, table_name))

\* lines 89-94: the frame the database path returns, or Null when load_table
\* goes on to the local samples
DbPath(table_name, engine) ==
    IF engine # Null /\ ~QueryRaises(table_name)
    THEN Some(read_sql(db, table_name))
    ELSE Null

\* lines 97-105: the local samples (the value returned and the inner cache afterwards)
LocalSamples(table_name) ==
    IF table_name = "volatility_by_day" THEN _read_excel_if_exists(SAMPLE_VOLATILITY_PATH)
    ELSE IF table_name = "detected_anomalies" THEN _read_excel_if_exists(SAMPLE_ANOMALIES_PATH)
    ELSE [value |-> EmptyFrame, cache |-> read_excel_cache]

\* lines 83-105.  The cache key is table_name alone: st.cache_data leaves
\* an argument whose name starts with an underscore (_engine) out of the hash.
load_table(table_name, engine) ==
    /\ IF Lookup(load_table_cache, table_name) # Null
         THEN /\ ret' = Some([table_name |-> table_name, engine |-> engine, hit |-> TRUE,
                               value |-> Lookup(load_table_cache, table_name)[1].value])
              /\ UNCHANGED <<load_table_cache, read_excel_cache>>
         ELSE LET got == DbPath(table_name, engine)
                  value == IF got # Null THEN got[1] ELSE LocalSamples(table_name).value
              IN  /\ ret' = Some([table_name |-> table_name, engine |-> engine,
                                   hit |-> FALSE, value |-> value])
                  /\ load_table_cache' = [load_table_cache EXCEPT ![table_name] = Entry(value)]
                  /\ read_excel_cache' = IF got # Null THEN read_excel_cache
                                          ELSE LocalSamples(table_name).cache
    /\ UNCHANGED <<online, files>>
    /\ UNCHANGED jobVars

\* d seconds pass
Tick(d) ==
    /\ load_table_cache' = Aged(load_table_cache, d)
    /\ read_excel_cache' = Aged(read_excel_cache, d)
    /\ UNCHANGED <<online, files, ret>>
    /\ UNCHANGED jobVars

\* the database goes away or comes back
Connectivity ==
    /\ online' = ~online
    /\ UNCHANGED <<files, load_table_cache, read_excel_cache, ret>>
    /\ UNCHANGED jobVars

\* a sample file is added, removed, damaged or repaired
FileChange(path, state) ==
    /\ files[path] # state
    /\ files' = [files EXCEPT ![path] = state]
    /\ UNCHANGED <<online, load_table_cache, read_excel_cache, ret>>
    /\ UNCHANGED jobVars

\* the app starts with empty caches, beside the sample files as shipped
DashboardStart ==
    /\ online = TRUE
    /\ files = [p \in SamplePaths |-> [exists |-> TRUE, readable |-> TRUE]]
    /\ load_table_cache = [t \in TableNames |-> Null]
    /\ read_excel_cache = [p \in SamplePaths |-> Null]
    /\ ret = Null

----------------------------------------------------------------------------
(* run_analysis *)

Init ==
    /\ db = [t \in Tables |-> IF t = "btc_ohlc_raw" THEN Some(<<>>) ELSE Null]
    /\ pc = "idle"
    /\ raised = Null
    /\ produced = {}
    /\ volatility_df = Null
    /\ anomaly_df = Null
    /\ written = [t \in ResultTables |-> Null]
    /\ fitted = Null
    /\ DashboardStart

\* The ingestion adapter appends a record to btc_ohlc_raw.
Ingest(rec, max) ==
    /\ Len(raw) < max
    /\ db' = [db EXCEPT !["btc_ohlc_raw"] = Some(Append(raw, rec))]
    /\ UNCHANGED <<pc, raised, produced, volatility_df, anomaly_df, written, fitted>>
    /\ UNCHANGED dashVars

\* an exception leaves run_analysis: nothing catches it
Raise(stage, kind) ==
    /\ pc' = "failed"
    /\ raised' = Some([stage |-> stage, kind |-> kind])

\* lines 13-30: the Glue job starts, resolves its parameters and builds the engine.
StartJob(engineOk) ==
    /\ pc \in {"idle", "done", "failed"}
    /\ produced' = {}
    /\ volatility_df' = Null
    /\ anomaly_df' = Null
    /\ IF engineOk
         THEN pc' = "volatility" /\ raised' = Null
         ELSE Raise("engine", "ArgumentError")
    /\ UNCHANGED <<db, written, fitted>>
    /\ UNCHANGED dashVars

Faults == {"none", "read", "write"}

\* lines 33-43
VolatilityStage(fault) ==
    /\ pc = "volatility"
    /\ IF fault = "read"
         THEN /\ Raise("volatility", "OperationalError")
              /\ UNCHANGED <<db, produced, volatility_df, written>>
         ELSE /\ volatility_df' = Some(raw)
              /\ IF fault = "write"
                   THEN /\ Raise("volatility", "OperationalError")
                        /\ UNCHANGED <<db, produced, written>>
                   ELSE /\ db' = to_sql(db, "volatility_by_day", VolatilityAnalysis(raw))
                        /\ written' = [written EXCEPT !["volatility_by_day"] =
                                            Some(VolatilityAnalysis(raw))]
                        /\ produced' = produced \cup {"volatility_by_day"}
                        /\ pc' = "anomaly"
                        /\ UNCHANGED raised
    /\ UNCHANGED <<anomaly_df, fitted>>
    /\ UNCHANGED dashVars

\* lines 46-58
AnomalyStage(fault) ==
    /\ pc = "anomaly"
    /\ IF fault = "read"
         THEN /\ Raise("anomaly", "OperationalError")
              /\ UNCHANGED <<db, produced, anomaly_df, written, fitted>>
         ELSE /\ anomaly_df' = Some(raw)
              /\ IF FitRaises(features(raw))
                   THEN /\ Raise("anomaly", "ValueError")
                        /\ UNCHANGED <<db, produced, written, fitted>>
                   ELSE \E lab \in fit_predict(features(raw)) :
                        IF fault = "write"
                        THEN /\ Raise("anomaly", "OperationalError")
                             /\ UNCHANGED <<db, produced, written, fitted>>
                        ELSE /\ db' = to_sql(db, "detected_anomalies",
                                             anomalies_to_save(features(raw), lab))
                             /\ written' = [written EXCEPT !["detected_anomalies"] =
                                                 Some(anomalies_to_save(features(raw), lab))]
                             /\ fitted' = Some(raw)
                             /\ produced' = produced \cup {"detected_anomalies"}
                             /\ pc' = "done"
                             /\ UNCHANGED raised
    /\ UNCHANGED volatility_df
    /\ UNCHANGED dashVars

Job ==
    \/ \E ok \in BOOLEAN : StartJob(ok)
    \/ \E f \in Faults : VolatilityStage(f)
    \/ \E f \in Faults : AnomalyStage(f)

\* the job over price series
Next ==
    \/ \E rec \in PriceRecords : Ingest(rec, MaxLen)
    \/ Job

Spec == Init /\ [][Next]_vars

\* the job over price-and-volume series
TradeNext ==
    \/ \E rec \in TradeRecords : Ingest(rec, MaxTrades)
    \/ Job

TradeSpec == Init /\ [][TradeNext]_vars

\* The series the dashboard's database was filled from, and the tables a
\* finished run of the job leaves for it.
LoadedSeries ==
    << [timestamp |-> 0,     close |-> 1, volume_btc |-> Some(1)],
       [timestamp |-> 3600,  close |-> 2, volume_btc |-> Some(1)],
       [timestamp |-> 7200,  close |-> 2, volume_btc |-> Some(2)],
       [timestamp |-> 10800, close |-> 1, volume_btc |-> Some(2)] >>

DashInit ==
    /\ \E lab \in fit_predict(features(LoadedSeries)) :
           db = [t \in Tables |->
                    IF t = "btc_ohlc_raw" THEN Some(LoadedSeries)
                    ELSE IF t = "volatility_by_day"
                         THEN Some(VolatilityAnalysis(LoadedSeries))
                    ELSE Some(anomalies_to_save(features(LoadedSeries), lab))]
    /\ pc = "done"
    /\ raised = Null
    /\ produced = ResultTables
    /\ volatility_df = Some(LoadedSeries)
    /\ anomaly_df = Some(LoadedSeries)
    /\ written = [t \in ResultTables |-> db[t]]
    /\ fitted = Some(LoadedSeries)
    /\ DashboardStart

\* the dashboard over a filled database
DashNext ==
    \/ \E t \in TableNames, e \in Engines : load_table(t, e)
    \/ \E d \in {TTL \div 2, TTL} : Tick(d)
    \/ Connectivity
    \/ \E p \in SamplePaths, st \in FileStates : FileChange(p, st)

DashSpec == DashInit /\ [][DashNext]_vars

----------------------------------------------------------------------------
(* Terms the properties are stated in *)

VOL == "volatility_by_day"
ANOM == "detected_anomalies"

\* the rows a table holds
Rows(t) == db[t][1]

\* the series the stages of the current run read
VolInput == volatility_df[1]
AnomInput == anomaly_df[1]

\* the run ended in the given stage
FailedIn(stage) == raised # Null /\ raised[1].stage = stage

\* the data model's invariant: timestamps strictly increasing
StrictlyIncreasing(df) == \A i \in 1..(Len(df) - 1) : df[i].timestamp < df[i+1].timestamp

\* the records of a series whose return falls on calendar day d (the first
\* record has no return)
ReturnsOn(df, d) == {i \in 2..Len(df) : DayOf(df[i].timestamp) = d}

\* the calendar days from the first return's to the last's
BucketDays(df) ==
    {d \in 0..7 : \E i, j \in 2..Len(df) : DayOf(df[i].timestamp) <= d /\ d <= DayOf(df[j].timestamp)}

\* no calendar bucket holds two returns
UnderPopulated(df) == \A d \in BucketDays(df) : Cardinality(ReturnsOn(df, d)) < 2

ConstantPrice(df) == \A i, j \in 1..Len(df) : df[i].close = df[j].close

\* the records with a defined price delta and a defined volume delta
\* against their predecessor
WithDeltas(df) ==
    {i \in 2..Len(df) : df[i].volume_btc # Null /\ df[i-1].volume_btc # Null}

RECURSIVE Ascending(_)
\* a finite set of integers as an ascending sequence
Ascending(S) ==
    IF S = {} THEN <<>>
    ELSE LET m == CHOOSE x \in S : \A y \in S : x <= y
         IN  <<m>> \o Ascending(S \ {m})

\* The ways of resolving a series into one that satisfies the invariant: its
\* timestamps in ascending order, one of the given records kept for each.
Resolutions(df) ==
    LET stamps == {df[i].timestamp : i \in 1..Len(df)}
        order == Ascending(stamps)
        picks == {f \in [stamps -> 1..Len(df)] : \A t \in stamps : df[f[t]].timestamp = t}
    IN  {[k \in 1..Len(order) |-> df[f[order[k]]]] : f \in picks}

----------------------------------------------------------------------------
(* Properties of run_analysis over price series (Spec) *)

\* C1 (as claimed): the two stages fail independently.  When the anomaly
\* stage raises, the run has produced volatility_by_day; when the volatility
\* stage raises, the run has produced detected_anomalies.
C1_StagesFailIndependently ==
    /\ FailedIn("anomaly") => VOL \in produced
    /\ FailedIn("volatility") => ANOM \in produced

\* C2: a result table holds exactly the frame its stage's latest write was
\* given; no earlier row survives and nothing is appended.
C2_WriteReplaces ==
    \A t \in ResultTables : written[t] # Null => db[t] = written[t]

\* C2's case: a later run, over a longer series, has rewritten
\* volatility_by_day (detected_anomalies still stands from an earlier run, so
\* an earlier run wrote both tables), and the rewritten rows differ from what
\* the earlier series gave.
C2_Rewritten ==
    /\ pc = "anomaly"
    /\ VOL \in produced
    /\ written[ANOM] # Null
    /\ Len(fitted[1]) < Len(VolInput)
    /\ Rows(VOL) # VolatilityAnalysis(fitted[1])
    /\ VolatilityAnalysis(fitted[1]) # <<>>

\* C3 (as claimed): over a series (of one record or more, timestamps
\* strictly increasing) in which no calendar bucket holds two returns, the
\* volatility stage raises nothing of its own and emits no weekday row.
C3_UnderPopulatedGivesNoRows ==
    /\ (volatility_df # Null /\ Len(VolInput) >= 1 /\ StrictlyIncreasing(VolInput)
            /\ UnderPopulated(VolInput) /\ FailedIn("volatility"))
           => raised[1].kind = "OperationalError"
    /\ (VOL \in produced /\ Len(VolInput) >= 1 /\ StrictlyIncreasing(VolInput)
            /\ UnderPopulated(VolInput))
           => Rows(VOL) = <<>>

\* C4 (as claimed): over a series of at least two records of constant price
\* (timestamps strictly increasing), every weekday row holds avg_volatility
\* 0.0, never NaN.
C4_ConstantPriceGivesZero ==
    (VOL \in produced /\ Len(VolInput) >= 2 /\ StrictlyIncreasing(VolInput)
        /\ ConstantPrice(VolInput))
        => \A k \in 1..Len(Rows(VOL)) : IsZero(Rows(VOL)[k].avg_volatility)

\* C5 (as claimed): over every series (timestamps strictly increasing) at
\* most 7 rows, their weekdays pairwise distinct, and a weekday has a row
\* only if a daily bucket on that weekday holds at least two returns, so that
\* its volatility is defined.
C5_RowsOnlyForDefinedWeekdays ==
    (VOL \in produced /\ StrictlyIncreasing(VolInput)) =>
        /\ Len(Rows(VOL)) <= 7
        /\ \A k, l \in 1..Len(Rows(VOL)) :
               Rows(VOL)[k].day_of_week = Rows(VOL)[l].day_of_week => k = l
        /\ \A k \in 1..Len(Rows(VOL)) :
               /\ ~IsNaN(Rows(VOL)[k].avg_volatility)
               /\ \E d \in BucketDays(VolInput) :
                      /\ day_name(d) = Rows(VOL)[k].day_of_week
                      /\ Cardinality(ReturnsOn(VolInput, d)) >= 2

\* the rows of a volatility frame whose value is defined
Defined(frame) == SelectSeq(frame, LAMBDA row : ~IsNaN(row.avg_volatility))

\* C8 (as claimed): a stage that read a series with a duplicate or
\* out-of-order timestamp and wrote its table wrote what a resolved series
\* gives (rows of undefined volatility aside), not what the records as
\* given give.
C8_DisorderIsResolved ==
    /\ (VOL \in produced /\ ~StrictlyIncreasing(VolInput))
           => \E r \in Resolutions(VolInput) :
                  Defined(Rows(VOL)) = Defined(VolatilityAnalysis(r))
    /\ (ANOM \in produced /\ ~StrictlyIncreasing(AnomInput))
           => \E r \in Resolutions(AnomInput) :
                  /\ ~FitRaises(features(r))
                  /\ \E lab \in fit_predict(features(r)) :
                         Rows(ANOM) = anomalies_to_save(features(r), lab)

----------------------------------------------------------------------------
(* Properties of the anomaly stage over price-and-volume series (TradeSpec) *)

\* C6 (as claimed): with fewer than 2 usable feature records (of a series
\* with strictly increasing timestamps) the anomaly stage fails on its input
\* and writes no table.
C6_FewerThanTwoFeaturesFails ==
    (anomaly_df # Null /\ StrictlyIncreasing(AnomInput)
        /\ Cardinality(WithDeltas(AnomInput)) < 2)
        => /\ raised = Some([stage |-> "anomaly", kind |-> "ValueError"])
           /\ ANOM \notin produced

\* C6 (amended): with no usable feature record the anomaly stage fails on
\* its input (ValueError) and writes no table.
C6_NoFeaturesFails ==
    (anomaly_df # Null /\ WithDeltas(AnomInput) = {})
        => /\ pc = "failed"
           /\ raised = Some([stage |-> "anomaly", kind |-> "ValueError"])
           /\ ANOM \notin produced
           /\ db[ANOM] = written[ANOM]

\* C6's case: the stage read several records, missing volumes left no
\* feature record, and the stage raised.
C6_NoFeaturesSeen ==
    /\ anomaly_df # Null
    /\ Len(AnomInput) >= 3
    /\ WithDeltas(AnomInput) = {}
    /\ FailedIn("anomaly")

C9_RerunReproduces ==
    [][(pc = "anomaly" /\ pc' = "done" /\ fitted = Some(raw)
            /\ StrictlyIncreasing(raw))
          => db'[ANOM] = db[ANOM]]_vars

----------------------------------------------------------------------------
(* Properties of load_table (DashSpec) *)

\* what the sample file at a path holds now: an empty frame when it is
\* missing or unreadable
SampleContents(path) ==
    IF files[path].exists /\ files[path].readable THEN SampleFrame(path) ELSE <<>>

\* what "database first, local samples otherwise" gives now
DbFirst(t, e) ==
    IF e # Null /\ online /\ t \in Tables /\ db[t] # Null THEN db[t][1]
    ELSE IF t = VOL THEN SampleContents(SAMPLE_VOLATILITY_PATH)
    ELSE IF t = ANOM THEN SampleContents(SAMPLE_ANOMALIES_PATH)
    ELSE <<>>

=============================================================================
